---- MODULE Spec2Model ----
(***************************************************************************)
(* django-multitenant: tenant scoping of reads, updates, deletes and of    *)
(* foreign-key relations (django_multitenant/mixins.py and fields.py).     *)
(*                                                                         *)
(* Two entity types are declared: Order (the model that declares the       *)
(* TenantForeignKey "customer") and Customer (the related model).  The     *)
(* Order table is the mutable store; the Customer table is fixed content.  *)
(* Python's None is the string "None" for attributes and 0 for a primary   *)
(* key (keys handed out by the database start at 1).                       *)
(***************************************************************************)
EXTENDS Integers, Sequences, FiniteSets, TLC

VARIABLES
    tenant_id,        \* TenantModelMixin.tenant_id of each model class (static)
    current_tenant,   \* the tenant context cell read by get_current_tenant()
    get_compiler,     \* DeleteQuery.get_compiler: how often wrapped, and its _sign marker
    related_objects,  \* Collector.related_objects: whose implementation is installed
    n_init,           \* TenantModelMixin.__init__ calls so far: 0, 1, or 2 for "twice or more"
    table,            \* the Order table: primary key -> stored row
    obj,              \* the Order instance the application holds in memory
    last              \* what the last operation returned, raised, issued and logged

vars == <<tenant_id, current_tenant, get_compiler, related_objects, n_init, table, obj, last>>

(***************************************************************************)
(* Bounds of the model.                                                    *)
(***************************************************************************)
MaxPk == 2

PKs == 1..MaxPk

(***************************************************************************)
(* The declared data model.                                                *)
(***************************************************************************)
Models == {"Order", "Customer"}
TenantColumns == {"tenant_id", "store_id"}
Tenants == {"tenantA", "tenantB"}
DataValues == {"v0", "v1"}

\* TenantForeignKey Order.customer -> Customer
field == [model |-> "Order", related_model |-> "Customer", name |-> "customer",
          column |-> "customer_id", target_column |-> "id"]

\* Customer rows; the key is composite (id, tenant), so ids repeat across tenants
CustomerRows == {[pk |-> 1, tenant |-> "tenantA"],
                 [pk |-> 1, tenant |-> "tenantB"],
                 [pk |-> 2, tenant |-> "tenantB"]}

(***************************************************************************)
(* Tenant values: nothing, a scalar identifier, or a list of identifiers.  *)
(***************************************************************************)
NoTenant == [kind |-> "none", val |-> "None", items |-> <<>>]
Scalar(t) == [kind |-> "scalar", val |-> t, items |-> <<>>]
TenantList(s) == [kind |-> "list", val |-> "None", items |-> s]

\* what an application hands to set_current_tenant: a tenant or a non-empty list of them
SettableTenants == {Scalar(t) : t \in Tenants} \cup {TenantList(<<"tenantA", "tenantB">>)}
TenantValues == {NoTenant} \cup SettableTenants

\* Python truth value of a tenant value: None and the empty list are false
Truthy(t) == /\ t.kind # "none"
             /\ (t.kind = "list" => Len(t.items) > 0)

isinstance_list(t) == t.kind = "list"

(***************************************************************************)
(* utils.py: the context and the metadata resolver.                        *)
(***************************************************************************)
get_current_tenant == current_tenant

get_current_tenant_value == current_tenant

get_tenant_column(model) == tenant_id[model]

\* the filter mapping {tenant column: current tenant value}; empty when no tenant is set
get_tenant_filters(model) ==
    IF Truthy(get_current_tenant_value)
    THEN <<[col |-> get_tenant_column(model), value |-> get_current_tenant_value]>>
    ELSE <<>>

(***************************************************************************)
(* Querysets: a model and a conjunction of equality predicates.            *)
(***************************************************************************)
queryset_class(model) == [model |-> model, where |-> <<>>]

filter(queryset, kwargs) == [queryset EXCEPT !.where = @ \o kwargs]

NoRow == [exists |-> FALSE, tenant |-> "None", data |-> "v0"]
Row(t, d) == [exists |-> TRUE, tenant |-> t, data |-> d]

\* the value of column col in an Order row
OrderField(row, col) == IF col = "data" THEN row.data ELSE row.tenant

Matches(row, p) == /\ p.value.kind = "scalar"
                   /\ OrderField(row, p.col) = p.value.val

\* the keys of the stored Order rows a queryset selects
Execute(queryset, tbl) ==
    {pk \in PKs : /\ tbl[pk].exists
                  /\ \A i \in 1..Len(queryset.where) : Matches(tbl[pk], queryset.where[i])}

(***************************************************************************)
(* mixins.py: TenantManagerMixin.                                          *)
(***************************************************************************)
\* a manager that forgets the tenant filter, to set against ReadIsolation
get_queryset_unscoped(model) ==
    [queryset |-> queryset_class(model), log |-> <<>>]

\* the manager's queryset and what the call wrote to the log
get_queryset(model) ==
    LET queryset == queryset_class(model)
        tenant == get_current_tenant
    IN  IF Truthy(tenant)
        THEN [queryset |-> filter(queryset, get_tenant_filters(model)), log |-> <<>>]
        ELSE [queryset |-> queryset, log |-> <<>>]

(***************************************************************************)
(* mixins.py: TenantModelMixin.__init__ and the two deletion hooks.        *)
(***************************************************************************)
OriginalCompiler == [depth |-> 0, _sign |-> FALSE]

\* query.py: the wrapper carries the marker attribute _sign
wrap_get_compiler(base_get_compiler) ==
    [depth |-> base_get_compiler.depth + 1, _sign |-> TRUE]

hasattr_sign(f) == f._sign

\* a constructor that wraps without looking for the marker, to set against
\* HookInstalledOnce
install_hooks_unguarded(compiler, collector) ==
    [get_compiler |-> wrap_get_compiler(compiler),
     related_objects |-> "django_multitenant"]

\* the hooks as the constructor leaves them
install_hooks(compiler, collector) ==
    IF ~hasattr_sign(compiler)
    THEN [get_compiler |-> wrap_get_compiler(compiler),
          related_objects |-> "django_multitenant"]
    ELSE [get_compiler |-> compiler, related_objects |-> collector]

NoObj == [exists |-> FALSE, pk |-> 0, tenant |-> "None", data |-> "v0"]
Instance(pk, t, d) == [exists |-> TRUE, pk |-> pk, tenant |-> t, data |-> d]

Construct(pk, t, d) ==
    LET hooks == install_hooks(get_compiler, related_objects)
    IN  /\ get_compiler' = hooks.get_compiler
        /\ related_objects' = hooks.related_objects
        /\ n_init' = IF n_init < 2 THEN n_init + 1 ELSE n_init
        /\ obj' = Instance(pk, t, d)

\* the application constructs an Order, with or without a key and a tenant attribute
__init__(pk, t) ==
    /\ Construct(pk, t, "v0")
    /\ last' = [op |-> "__init__"]
    /\ UNCHANGED <<tenant_id, current_tenant, table>>

(***************************************************************************)
(* The context cell.                                                       *)
(***************************************************************************)
set_current_tenant(tenant) ==
    /\ current_tenant' = tenant
    /\ last' = [op |-> "set_current_tenant"]
    /\ UNCHANGED <<tenant_id, get_compiler, related_objects, n_init, table, obj>>

(***************************************************************************)
(* Reads through the manager.                                              *)
(***************************************************************************)
\* Order.objects.all(), or Order.objects.filter(data=d) when chain is a data value
objects_all(chain) ==
    LET got == get_queryset("Order")
        queryset == IF chain = "None" THEN got.queryset
                    ELSE filter(got.queryset, <<[col |-> "data", value |-> Scalar(chain)]>>)
    IN  /\ last' = [op |-> "all", where |-> queryset.where,
                    rows |-> Execute(queryset, table), log |-> got.log]
        /\ UNCHANGED <<tenant_id, current_tenant, get_compiler, related_objects,
                       n_init, table, obj>>

\* Order.objects.get(pk=pk): the row is loaded into a new instance, or DoesNotExist
objects_get(pk) ==
    LET got == get_queryset("Order")
        found == pk \in Execute(got.queryset, table)
    IN  /\ IF found
           THEN Construct(pk, table[pk].tenant, table[pk].data)
           ELSE UNCHANGED <<get_compiler, related_objects, n_init, obj>>
        /\ last' = [op |-> "get", where |-> got.queryset.where, found |-> found]
        /\ UNCHANGED <<tenant_id, current_tenant, table>>

\* the application changes a loaded or new instance before saving it
setattr_data(d) ==
    /\ obj.exists
    /\ obj.data # d
    /\ obj' = [obj EXCEPT !.data = d]
    /\ last' = [op |-> "setattr"]
    /\ UNCHANGED <<tenant_id, current_tenant, get_compiler, related_objects, n_init, table>>

(***************************************************************************)
(* mixins.py: TenantModelMixin._do_update and save.                        *)
(***************************************************************************)
\* django Model._do_update: UPDATE Order SET values WHERE pk = pk_val AND base_qs.where
super_do_update(base_qs, pk_val, values, tbl) ==
    LET hit == Execute(base_qs, tbl) \cap {pk_val}
    IN  [table |-> [pk \in PKs |-> IF pk \in hit THEN Row(values.tenant, values.data)
                                   ELSE tbl[pk]],
         rows |-> Cardinality(hit),
         where |-> base_qs.where]

\* an update scoped by the tenant attribute the instance carries instead of the
\* current tenant, to set against UpdateScopedBySaveTimeTenant
_do_update_by_instance(base_qs, pk_val, values, tbl) ==
    [log |-> <<>>]
    @@ super_do_update(filter(base_qs, <<[col |-> get_tenant_column("Order"),
                                          value |-> Scalar(values.tenant)]>>),
                       pk_val, values, tbl)

_do_update(base_qs, pk_val, values, tbl) ==
    LET tenant == get_current_tenant
    IN  IF Truthy(tenant)
        THEN [log |-> <<>>]
             @@ super_do_update(filter(base_qs, get_tenant_filters("Order")),
                                pk_val, values, tbl)
        ELSE [log |-> <<"warning">>] @@ super_do_update(base_qs, pk_val, values, tbl)

\* the first statement of save: stamp the tenant attribute of an instance without a key
stamp(self) ==
    LET tenant_value == get_current_tenant_value
    IN  IF self.pk = 0 /\ Truthy(tenant_value) /\ ~isinstance_list(tenant_value)
        THEN [self EXCEPT !.tenant = tenant_value.val]
        ELSE self

FreePks(tbl) == {pk \in PKs : ~tbl[pk].exists}

\* the key the database hands out to a row inserted without one
NextPk(tbl) == CHOOSE pk \in FreePks(tbl) : \A q \in FreePks(tbl) : pk <= q

\* save: stamp, then django's save_table: try the UPDATE when a key is set, INSERT if
\* no row was updated (a second row with the same key is an IntegrityError)
save ==
    /\ obj.exists
    /\ obj.pk # 0 \/ FreePks(table) # {}
    /\ LET self == stamp(obj)
           pk_set == self.pk # 0
           upd == IF pk_set
                  THEN _do_update(queryset_class("Order"), self.pk, self, table)
                  ELSE [table |-> table, rows |-> 0, where |-> <<>>, log |-> <<>>]
           conflict == pk_set /\ table[self.pk].exists
           outcome == IF upd.rows > 0 THEN "updated"
                      ELSE IF conflict THEN "IntegrityError" ELSE "inserted"
           new_pk == IF pk_set THEN self.pk ELSE NextPk(table)
       IN  /\ table' = IF outcome = "updated" THEN upd.table
                       ELSE IF outcome = "inserted"
                            THEN [table EXCEPT ![new_pk] = Row(self.tenant, self.data)]
                            ELSE table
           /\ obj' = IF outcome = "inserted" THEN [self EXCEPT !.pk = new_pk] ELSE self
           /\ last' = [op |-> "save", before |-> obj,
                       stored |-> IF pk_set THEN table[self.pk] ELSE NoRow,
                       update |-> pk_set, where |-> upd.where, rows |-> upd.rows,
                       outcome |-> outcome, log |-> upd.log]
    /\ UNCHANGED <<tenant_id, current_tenant, get_compiler, related_objects, n_init>>

(***************************************************************************)
(* Deletes: the query django builds, and DeleteQuery.get_compiler on it.   *)
(***************************************************************************)
\* query.py: what one layer of the wrapper adds to the delete query
add_tenant_filters_on_query(query) ==
    IF Truthy(get_current_tenant)
    THEN filter(query, get_tenant_filters(query.model))
    ELSE query

RECURSIVE compile(_, _)
\* DeleteQuery.get_compiler as installed: the original under `depth` wrappers
compile(depth, query) ==
    IF depth = 0 THEN query
    ELSE add_tenant_filters_on_query(compile(depth - 1, query))

\* deletion.py: the dependent rows the collector is to delete
collect_related(model) ==
    IF related_objects = "django_multitenant"
    THEN filter(queryset_class(model), get_tenant_filters(model))
    ELSE queryset_class(model)

\* the delete query before compilation, by the way the application asked for it:
\*   "instance"  obj.delete(), a delete of the instance's key
\*   "objects"   Order.objects.all().delete(), the manager's queryset
\*   "cascade"   a cascade from a parent row, through Collector.related_objects
delete_query(via) ==
    IF via = "objects" THEN get_queryset("Order").queryset
    ELSE IF via = "cascade" THEN collect_related("Order")
    ELSE queryset_class("Order")

delete(via, pk) ==
    /\ via = "instance" => (obj.exists /\ obj.pk = pk)
    /\ LET base == delete_query(via)
           query == compile(get_compiler.depth, base)
           gone == Execute(query, table) \cap {pk}
       IN  /\ table' = [k \in PKs |-> IF k \in gone THEN NoRow ELSE table[k]]
           /\ obj' = IF via = "instance" THEN [obj EXCEPT !.pk = 0] ELSE obj
           /\ last' = [op |-> "delete", via |-> via, base |-> base.where,
                       where |-> query.where, rows |-> Cardinality(gone)]
    /\ UNCHANGED <<tenant_id, current_tenant, get_compiler, related_objects, n_init>>

(***************************************************************************)
(* The entity lifecycle: context, construction, reads, saves, deletes.     *)
(***************************************************************************)
Schema == [Order |-> "tenant_id", Customer |-> "tenant_id"]

Init ==
    /\ tenant_id = Schema
    /\ current_tenant = NoTenant
    /\ get_compiler = OriginalCompiler
    /\ related_objects = "django"
    /\ n_init = 0
    /\ table = [pk \in PKs |-> NoRow]
    /\ obj = NoObj
    /\ last = [op |-> "start"]

Next ==
    \/ \E tenant \in TenantValues : set_current_tenant(tenant)
    \/ \E pk \in 0..MaxPk, t \in {"None"} \cup Tenants : __init__(pk, t)
    \/ \E chain \in {"None"} \cup DataValues : objects_all(chain)
    \/ \E pk \in PKs : objects_get(pk)
    \/ \E d \in DataValues : setattr_data(d)
    \/ save

Spec == Init /\ [][Next]_vars

(***************************************************************************)
(* Deletes: any stored rows at process start, the context, construction    *)
(* and loading of instances, and the three ways to a DELETE.               *)
(***************************************************************************)
InitDel ==
    /\ tenant_id = Schema
    /\ current_tenant = NoTenant
    /\ get_compiler = OriginalCompiler
    /\ related_objects = "django"
    /\ n_init = 0
    /\ table \in [PKs -> {NoRow} \cup {Row(t, "v0") : t \in Tenants}]
    /\ obj = NoObj
    /\ last = [op |-> "start"]

NextDel ==
    \/ \E tenant \in TenantValues : set_current_tenant(tenant)
    \/ \E pk \in 0..MaxPk, t \in {"None"} \cup Tenants : __init__(pk, t)
    \/ \E pk \in PKs : objects_get(pk)
    \/ \E via \in {"instance", "objects", "cascade"}, pk \in PKs : delete(via, pk)

SpecDel == InitDel /\ [][NextDel]_vars

(***************************************************************************)
(* Properties of the entity lifecycle.                                     *)
(***************************************************************************)
\* the tenant predicate of the Order table for the tenant now current
TenantPredicate == [col |-> tenant_id["Order"], value |-> current_tenant]

HasTenantPredicate(where) == \E i \in 1..Len(where) : where[i] = TenantPredicate

\* the tenant values a row may carry under tenant value t
Admits(t, v) == IF t.kind = "scalar" THEN v = t.val
                ELSE \E i \in 1..Len(t.items) : v = t.items[i]

\* C1: a read through the manager while a tenant is current carries the tenant filter
\* first in its WHERE clause, also after the caller chained a filter, and returns only
\* rows of the current tenant; for a scalar tenant exactly the stored rows of that
\* tenant that pass the chained filter.
ReadIsolation ==
    (last.op = "all" /\ Truthy(current_tenant)) =>
        /\ Len(last.where) >= 1
        /\ last.where[1] = TenantPredicate
        /\ \A pk \in last.rows : table[pk].exists /\ Admits(current_tenant, table[pk].tenant)
        /\ current_tenant.kind = "scalar" =>
              last.rows = {pk \in PKs :
                              /\ table[pk].exists
                              /\ table[pk].tenant = current_tenant.val
                              /\ \A i \in 2..Len(last.where) :
                                     table[pk].data = last.where[i].value.val}

\* a row stamped tenantA is stored, tenantB is current, and a chained read returned a
\* tenantB row but not the tenantA row
ReadIsolationWitness ==
    /\ last.op = "all"
    /\ current_tenant = Scalar("tenantB")
    /\ Len(last.where) = 2
    /\ \E a, b \in PKs : /\ table[a].exists /\ table[a].tenant = "tenantA"
                         /\ table[a].data = last.where[2].value.val
                         /\ a \notin last.rows
                         /\ b \in last.rows

\* C3: an UPDATE issued by save while a tenant is current is scoped by the tenant
\* current at save time; under a scalar tenant that differs from the tenant stored in
\* the row, no row is affected and the stored row stays as it was.
UpdateScopedBySaveTimeTenant ==
    (last.op = "save" /\ last.update /\ Truthy(current_tenant)) =>
        /\ last.where = <<TenantPredicate>>
        /\ (/\ last.stored.exists
            /\ current_tenant.kind = "scalar"
            /\ last.stored.tenant # current_tenant.val) =>
               /\ last.rows = 0
               /\ table[last.before.pk] = last.stored

\* an instance carrying tenantA, as loaded under tenantA, was changed and saved under
\* tenantB: nothing was updated
UpdateScopedWitness ==
    /\ last.op = "save"
    /\ last.update
    /\ current_tenant = Scalar("tenantB")
    /\ last.before.tenant = "tenantA"
    /\ last.stored.exists
    /\ last.stored.tenant = "tenantA"
    /\ last.before.data # last.stored.data
    /\ last.rows = 0
    /\ table[last.before.pk] = last.stored

\* C7: once a TenantModelMixin was constructed, however often, DeleteQuery.get_compiler
\* is the original factory under exactly one wrapper and Collector.related_objects is
\* the tenant-aware one, and compiling a DELETE under a current tenant appends the
\* tenant predicate exactly once.
HookInstalledOnce ==
    /\ n_init >= 1 =>
          /\ get_compiler = wrap_get_compiler(OriginalCompiler)
          /\ related_objects = "django_multitenant"
    /\ (last.op = "delete" /\ n_init >= 1 /\ Truthy(current_tenant)) =>
          last.where = last.base \o <<TenantPredicate>>

\* a DELETE compiled after a second construction, under a current tenant
HookInstalledOnceWitness ==
    /\ n_init >= 2
    /\ last.op = "delete"
    /\ last.via = "instance"
    /\ Truthy(current_tenant)
    /\ last.where = <<TenantPredicate>>

\* C2: whenever a tenant is current, every DELETE generated against Order carries the
\* predicate tenant column = current tenant, from process start on.
DeleteAlwaysScoped ==
    (last.op = "delete" /\ Truthy(current_tenant)) => HasTenantPredicate(last.where)

\* C5: saving an instance that is not yet stored and whose tenant attribute the caller
\* left unset, with or without a caller-supplied key, stamps it with a scalar current
\* tenant; under a list-valued or no tenant the attribute stays as it was.
StampOnCreate ==
    (last.op = "save" /\ ~last.stored.exists /\ last.before.tenant = "None") =>
        IF current_tenant.kind = "scalar"
        THEN obj.tenant = current_tenant.val
        ELSE obj.tenant = last.before.tenant

\* C6: saving a new instance whose tenant attribute the caller assigned, under a scalar
\* current tenant that differs from it, leaves the assigned value.
StampKeepsExplicitTenant ==
    (/\ last.op = "save"
     /\ ~last.stored.exists
     /\ last.before.tenant # "None"
     /\ current_tenant.kind = "scalar"
     /\ current_tenant.val # last.before.tenant) =>
        obj.tenant = last.before.tenant

\* C10: with no tenant current, a saved new instance keeps its unset tenant attribute,
\* and a read through the manager returns the unfiltered base query, the row included,
\* and logs a warning.
NoTenantReadWarns ==
    /\ (last.op = "save" /\ ~Truthy(current_tenant)) => obj.tenant = last.before.tenant
    /\ (last.op = "all" /\ ~Truthy(current_tenant)) =>
          /\ ~HasTenantPredicate(last.where)
          /\ Len(last.where) = 0 => last.rows = {pk \in PKs : table[pk].exists}
          /\ Len(last.log) > 0

(***************************************************************************)
(* fields.py: TenantForeignKey, here the field Order.customer.              *)
(***************************************************************************)
\* django ForeignObject.get_joining_columns: the key pairs, local side first; a reverse
\* join starts from the related model, so its pairs are the other way round
super_get_joining_columns(reverse_join) ==
    IF reverse_join THEN << <<field.target_column, field.column>> >>
    ELSE << <<field.column, field.target_column>> >>

get_joining_columns(reverse_join) ==
    LET default_columns == super_get_joining_columns(reverse_join)
        lhs_tenant_id == get_tenant_column(field.model)
        rhs_tenant_id == get_tenant_column(field.related_model)
    IN  default_columns \o << <<lhs_tenant_id, rhs_tenant_id>> >>

\* utils.py: the tenant field of a model, known by its model and its column
get_tenant_field(model) == [model |-> model, column |-> get_tenant_column(model)]

NoCondition == [lookup |-> "None", model |-> "None", column |-> "None",
                alias |-> "None", rhs |-> NoTenant]

\* a restriction on the related model's tenant column in the table named by alias, to
\* set against RestrictionOnDeclaringModel
get_extra_restriction_on_related(alias, related_alias) ==
    IF ~Truthy(get_current_tenant_value) THEN NoCondition
    ELSE [lookup |-> "exact", model |-> field.related_model,
          column |-> get_tenant_column(field.related_model), alias |-> alias,
          rhs |-> get_current_tenant_value]

\* the condition object: one lookup "exact" of a column reference against a value
get_extra_restriction(alias, related_alias) ==
    LET current_tenant_value == get_current_tenant_value
        lhs_tenant_field == get_tenant_field(field.model)
    IN  IF ~Truthy(current_tenant_value) THEN NoCondition
        ELSE [lookup |-> "exact", model |-> lhs_tenant_field.model,
              column |-> lhs_tenant_field.column, alias |-> related_alias,
              rhs |-> current_tenant_value]

\* a descriptor filter that does not insist on a tenant, to set against
\* TraversalNeedsTenant
get_extra_descriptor_filter_lenient(instance) ==
    [raised |-> "None", args |-> <<>>, filter |-> get_tenant_filters(instance)]

\* what the call returns or raises; instance is the model class of the instance
get_extra_descriptor_filter(instance) ==
    LET tenant == get_current_tenant
    IN  IF ~Truthy(tenant)
        THEN [raised |-> "ValueError",
              args |-> <<"TenantForeignKey field %s.%s accessed without a current tenant set.",
                         field.model, field.name>>,
              filter |-> <<>>]
        ELSE [raised |-> "None", args |-> <<>>, filter |-> get_tenant_filters(instance)]

Aliases == {"T1", "T2", "U0"}

joining_columns(reverse_join) ==
    /\ last' = [op |-> "get_joining_columns", reverse_join |-> reverse_join,
                columns |-> get_joining_columns(reverse_join)]
    /\ UNCHANGED <<tenant_id, current_tenant, get_compiler, related_objects, n_init,
                   table, obj>>

\* a join or a subquery over the relation: alias names the table of the related model,
\* related_alias the table of the model that declares the field
extra_restriction(alias, related_alias) ==
    /\ alias # related_alias
    /\ last' = [op |-> "get_extra_restriction", alias |-> alias,
                related_alias |-> related_alias,
                condition |-> get_extra_restriction(alias, related_alias)]
    /\ UNCHANGED <<tenant_id, current_tenant, get_compiler, related_objects, n_init,
                   table, obj>>

CustomerHasField(col) == col = "id" \/ col = tenant_id["Customer"]

\* order.customer for an Order whose customer_id is fk: django's descriptor fetches the
\* Customer rows with id = fk that pass the extra descriptor filter; a filter on a name
\* that is no Customer field is a FieldError
customer(fk) ==
    /\ obj.exists
    /\ LET got == get_extra_descriptor_filter("Order")
           known == \A i \in 1..Len(got.filter) : CustomerHasField(got.filter[i].col)
           rows == {r \in CustomerRows :
                       /\ r.pk = fk
                       /\ \A i \in 1..Len(got.filter) :
                              /\ got.filter[i].value.kind = "scalar"
                              /\ r.tenant = got.filter[i].value.val}
       IN  last' = IF got.raised # "None"
                   THEN [op |-> "customer", raised |-> got.raised, args |-> got.args,
                         filter |-> got.filter, rows |-> {}]
                   ELSE IF ~known
                   THEN [op |-> "customer", raised |-> "FieldError", args |-> <<>>,
                         filter |-> got.filter, rows |-> {}]
                   ELSE [op |-> "customer", raised |-> "None", args |-> <<>>,
                         filter |-> got.filter, rows |-> rows]
    /\ UNCHANGED <<tenant_id, current_tenant, get_compiler, related_objects, n_init,
                   table, obj>>

(***************************************************************************)
(* The relation: any declaration of the two tenant columns, the context,   *)
(* and the three extension points of the field.                            *)
(***************************************************************************)
InitRel ==
    /\ tenant_id \in [Models -> TenantColumns]
    /\ current_tenant = NoTenant
    /\ get_compiler = OriginalCompiler
    /\ related_objects = "django"
    /\ n_init = 0
    /\ table = [pk \in PKs |-> NoRow]
    /\ obj = NoObj
    /\ last = [op |-> "start"]

NextRel ==
    \/ \E tenant \in TenantValues : set_current_tenant(tenant)
    \/ \E pk \in 0..MaxPk, t \in {"None"} \cup Tenants : __init__(pk, t)
    \/ \E reverse_join \in BOOLEAN : joining_columns(reverse_join)
    \/ \E alias \in Aliases, related_alias \in Aliases :
           extra_restriction(alias, related_alias)
    \/ \E fk \in PKs : customer(fk)

SpecRel == InitRel /\ [][NextRel]_vars

(***************************************************************************)
(* Properties of the relation.                                             *)
(***************************************************************************)
\* C4: dereferencing order.customer with no tenant current raises an error that names
\* the declaring model and the field and returns no filter and no row; with a tenant
\* current the filter returned is the tenant filter built for the instance, and every
\* row the traversal yields is a row of the current tenant.  A traversal never
\* completes without a tenant filter.
TraversalNeedsTenant ==
    last.op = "customer" =>
        /\ ~Truthy(current_tenant) =>
              /\ last.raised = "ValueError"
              /\ last.args[2] = field.model /\ last.args[3] = field.name
              /\ last.filter = <<>>
              /\ last.rows = {}
        /\ Truthy(current_tenant) =>
              /\ last.raised # "ValueError"
              /\ last.filter = <<[col |-> tenant_id["Order"], value |-> current_tenant]>>
              /\ \A r \in last.rows : Admits(current_tenant, r.tenant)
        /\ last.raised = "None" => Len(last.filter) = 1

\* order.customer was dereferenced with no tenant current and raised the error
TraversalNeedsTenantWitness ==
    /\ last.op = "customer"
    /\ ~Truthy(current_tenant)
    /\ obj.exists
    /\ last.raised = "ValueError"
    /\ last.args[2] = "Order" /\ last.args[3] = "customer"

\* C8: in both join directions the joining columns are the default key pairs followed
\* by one pair of the two tenant columns, each tenant column on the side of its own
\* model's key column.
JoinTenantPairSides ==
    last.op = "get_joining_columns" =>
        LET default_columns == super_get_joining_columns(last.reverse_join)
            order_tenant == tenant_id[field.model]
            customer_tenant == tenant_id[field.related_model]
        IN  /\ Len(last.columns) = Len(default_columns) + 1
            /\ SubSeq(last.columns, 1, Len(default_columns)) = default_columns
            /\ last.columns[Len(last.columns)] =
                   IF default_columns[1][1] = field.column
                   THEN <<order_tenant, customer_tenant>>
                   ELSE <<customer_tenant, order_tenant>>

\* C9 as stated: the restriction is an exact match on the related model's (Customer's)
\* tenant column against the current tenant value, and none when no value is set.
RestrictionOnTarget ==
    last.op = "get_extra_restriction" =>
        IF Truthy(current_tenant)
        THEN /\ last.condition.lookup = "exact"
             /\ last.condition.model = field.related_model
             /\ last.condition.column = tenant_id[field.related_model]
             /\ last.condition.alias = last.alias
             /\ last.condition.rhs = current_tenant
        ELSE last.condition = NoCondition

\* C9 amended: the restriction is an exact match on the tenant column of the model
\* that declares the field (Order), in the table named by related_alias, against the
\* current tenant value; none when no value is set.
RestrictionOnDeclaringModel ==
    last.op = "get_extra_restriction" =>
        IF Truthy(current_tenant)
        THEN /\ last.condition.lookup = "exact"
             /\ last.condition.model = field.model
             /\ last.condition.column = tenant_id[field.model]
             /\ last.condition.alias = last.related_alias
             /\ last.condition.rhs = current_tenant
        ELSE last.condition = NoCondition

\* a restriction was built under tenantA with differently named tenant columns
RestrictionWitness ==
    /\ last.op = "get_extra_restriction"
    /\ current_tenant = Scalar("tenantA")
    /\ tenant_id["Order"] # tenant_id["Customer"]
    /\ last.condition.column = tenant_id["Order"]
    /\ last.condition.alias = last.related_alias

====
